---- MODULE Spec2Model ----
(***************************************************************************)
(* State-machine model of backend/main.py of the design review system:     *)
(* the in-memory collections DRAWINGS, ANNOTATIONS and WORKFLOWS and the   *)
(* request handlers that mutate them.  Every handler is an `async def`     *)
(* without an await, so the event loop runs it to completion: one action   *)
(* per handler.  The handlers of one collection never touch another        *)
(* collection: Spec serves the requests on drawings and workflows,         *)
(* SpecAnnotations those on annotations, SpecConcurrent keeps several      *)
(* create_version requests in flight at once, and SpecAll serves every     *)
(* handler that assigns to a collection, on fewer inputs.                  *)
(***************************************************************************)
EXTENDS Integers, Sequences, FiniteSets, TLC

\* ---------------------------------------------------------------- bounds
\* MaxRequests: the requests served in one run.  MaxClock: the readings the
\* clock can take after StartTime.  MaxClients: the clients of SpecConcurrent.
MaxRequests == 3
MaxClock == 1
MaxClients == 2

\* ------------------------------------------------------------ primitives
\* Optional[T]: None is the empty sequence, a value v is <<v>>.
None == <<>>
Some(v) == <<v>>

\* datetime(y, m, d, h, mi) as an integer that orders like the datetime
\* (minutes in a calendar of 31-day months counted from the year 2000).
datetime(y, m, d, h, mi) ==
  (((((y - 2000) * 12 + (m - 1)) * 31 + (d - 1)) * 24 + h) * 60) + mi

\* The wall clock when the process starts; datetime.now() never reads less.
StartTime == datetime(2025, 1, 1, 0, 0)
Times == {StartTime + k : k \in 0..MaxClock}

ReviewStatus == {"draft", "in_review", "approved", "rejected", "needs_revision"}

USERS == <<
  [id |-> "user-1", name |-> "Alex Chen", email |-> "alex.chen@example.com",
   role |-> "engineer", avatar |-> Some("AC")],
  [id |-> "user-2", name |-> "Jordan Smith", email |-> "jordan.smith@example.com",
   role |-> "reviewer", avatar |-> Some("JS")],
  [id |-> "user-3", name |-> "Sam Rivera", email |-> "sam.rivera@example.com",
   role |-> "admin", avatar |-> Some("SR")] >>

VERSION_1 ==
  [id |-> "ver-1-1", version_number |-> 1, created_at |-> datetime(2024, 10, 1, 0, 0),
   created_by |-> USERS[1], file_url |-> "/api/files/drawing-1-v1.pdf",
   changes_summary |-> None, status |-> "approved"]

VERSION_2 ==
  [id |-> "ver-1-2", version_number |-> 2, created_at |-> datetime(2024, 11, 15, 0, 0),
   created_by |-> USERS[1], file_url |-> "/api/files/drawing-1-v2.pdf",
   changes_summary |-> Some("Updated load calculations and beam specifications"),
   status |-> "in_review"]

InitDrawings == <<
  [id |-> "draw-1", title |-> "Foundation Plan - Level B2", project_id |-> "proj-1",
   current_version |-> VERSION_2, versions |-> <<VERSION_1, VERSION_2>>,
   created_at |-> datetime(2024, 10, 1, 0, 0), updated_at |-> datetime(2024, 11, 15, 0, 0)],
  [id |-> "draw-2", title |-> "Structural Framing - Level 15", project_id |-> "proj-1",
   current_version |-> VERSION_1, versions |-> <<VERSION_1>>,
   created_at |-> datetime(2024, 10, 5, 0, 0), updated_at |-> datetime(2024, 10, 5, 0, 0)] >>

InitAnnotations == <<
  [id |-> "ann-1", drawing_id |-> "draw-1", version_id |-> "ver-1-2", type |-> "comment",
   author |-> USERS[2],
   content |-> "Please verify the rebar spacing in grid A-3. Seems tighter than spec.",
   position |-> [x |-> 450, y |-> 320, width |-> 200, height |-> 100],
   created_at |-> datetime(2024, 11, 16, 10, 30), updated_at |-> datetime(2024, 11, 16, 10, 30),
   resolved |-> FALSE,
   replies |-> << [id |-> "reply-1", author |-> USERS[1],
                   content |-> "Good catch! Will update to match detail 3/A2.1",
                   created_at |-> datetime(2024, 11, 16, 14, 15)] >>],
  [id |-> "ann-2", drawing_id |-> "draw-1", version_id |-> "ver-1-2", type |-> "measurement",
   author |-> USERS[1], content |-> "12'-6 clear height verified",
   position |-> [x |-> 200, y |-> 150, width |-> 150, height |-> 80],
   created_at |-> datetime(2024, 11, 15, 9, 0), updated_at |-> datetime(2024, 11, 15, 9, 0),
   resolved |-> TRUE, replies |-> <<>>],
  [id |-> "ann-3", drawing_id |-> "draw-1", version_id |-> "ver-1-2", type |-> "stamp",
   author |-> USERS[2], content |-> "APPROVED",
   position |-> [x |-> 650, y |-> 100, width |-> 120, height |-> 60],
   created_at |-> datetime(2024, 11, 17, 16, 45), updated_at |-> datetime(2024, 11, 17, 16, 45),
   resolved |-> TRUE, replies |-> <<>>] >>

InitWorkflows == <<
  [id |-> "wf-1", drawing_id |-> "draw-1", version_id |-> "ver-1-2", status |-> "in_review",
   reviewers |-> <<USERS[2]>>, due_date |-> Some(datetime(2024, 11, 30, 0, 0)),
   created_at |-> datetime(2024, 11, 15, 0, 0), completed_at |-> None] >>

\* ------------------------------------------------------- request inputs
DrawingIds == {"draw-1", "draw-2", "draw-9"}
UserIds == {"user-2", "user-9"}
WorkflowIds == {"wf-1", "wf-9"}
AnnotationIds == {"ann-1", "ann-2", "ann-3", "ann-4", "ann-9"}
FileUrls == {"http://blob/a.pdf"}
Summaries == {Some("initial")}
\* (drawing_id, version_id) pairs of CreateAnnotationRequest
AnnotationTargets == {<<"draw-1", "ver-1-1">>, <<"draw-2", "ver-1-2">>}
Contents == {"Check spacing"}
Clients == 1..MaxClients

\* ------------------------------------------------------------- state
\* DRAWINGS, ANNOTATIONS, WORKFLOWS: the module-level lists of main.py.
\* clock: the latest reading of datetime.now().  inflight: the create_version
\* requests the clients of SpecConcurrent have sent, each with the number of
\* requests served when it arrived and whether it has been served.  last: the
\* handler that ran last, the id it was called with and the HTTP status it
\* answered.
VARIABLES DRAWINGS, ANNOTATIONS, WORKFLOWS, clock, inflight, last

vars == <<DRAWINGS, ANNOTATIONS, WORKFLOWS, clock, inflight, last>>

\* ------------------------------------------------------------ helpers
\* next((e for e in seq if e.id == id), None): index of the first match, 0 for None.
FirstIndex(seq, id) ==
  IF \E i \in 1..Len(seq) : seq[i].id = id
  THEN CHOOSE i \in 1..Len(seq) :
         seq[i].id = id /\ \A j \in 1..(i - 1) : seq[j].id # id
  ELSE 0

\* next((u for u in USERS if u.id == user_id), USERS[0])
UserOrDefault(user_id) ==
  IF FirstIndex(USERS, user_id) # 0 THEN USERS[FirstIndex(USERS, user_id)] ELSE USERS[1]

\* The answer of the handler serving request number last.seq + 1.
Response(op, target, code) ==
  [seq |-> last.seq + 1, op |-> op, target |-> target, code |-> code]

\* The run serves at most MaxRequests requests.
Serving == last.seq < MaxRequests

\* Two successive readings t1 <= t2 of datetime.now(), none before the last.
Readings == {r \in Times \X Times : clock <= r[1] /\ r[1] <= r[2]}

Init ==
  /\ DRAWINGS = InitDrawings
  /\ ANNOTATIONS = InitAnnotations
  /\ WORKFLOWS = InitWorkflows
  /\ clock = StartTime
  /\ inflight = {}
  /\ last = [seq |-> 0, op |-> "start", target |-> "", code |-> 0]

\* ------------------------------------------------------------ versions
\* f"ver-{drawing_id}-{new_version_number}"
VersionId(drawing_id, n) == "ver-" \o drawing_id \o "-" \o ToString(n)

\* Faulty variant of NewVersionNumber: the count of versions, without the + 1.
NewVersionNumberNoIncrement(drawing) == Len(drawing.versions)

\* len(drawing.versions) + 1
NewVersionNumber(drawing) == Len(drawing.versions) + 1

\* Faulty variant of NewVersion: the changes_summary of the request is dropped.
NewVersionNoSummary(drawing, drawing_id, file_url, changes_summary, created_by_id, now) ==
  [id |-> "ver-" \o drawing_id \o "-" \o ToString(Len(drawing.versions) + 1),
   version_number |-> Len(drawing.versions) + 1,
   created_at |-> now,
   created_by |-> UserOrDefault(created_by_id),
   file_url |-> file_url,
   changes_summary |-> None,
   status |-> "draft"]

\* new_version = Version(...)
NewVersion(drawing, drawing_id, file_url, changes_summary, created_by_id, now) ==
  [id |-> VersionId(drawing_id, NewVersionNumber(drawing)),
   version_number |-> NewVersionNumber(drawing),
   created_at |-> now,
   created_by |-> UserOrDefault(created_by_id),
   file_url |-> file_url,
   changes_summary |-> changes_summary,
   status |-> "draft"]

\* Faulty variant of AppendVersion: the version is appended, current_version is not moved.
AppendVersionKeepCurrent(drawing, v, now) ==
  [drawing EXCEPT !.versions = Append(@, v), !.updated_at = now]

\* Faulty variant of AppendVersion: the version is inserted first, not appended.
PrependVersion(drawing, v, now) ==
  [drawing EXCEPT !.versions = <<v>> \o @, !.current_version = v, !.updated_at = now]

\* drawing.versions.append(v); drawing.current_version = v; drawing.updated_at = now
AppendVersion(drawing, v, now) ==
  [drawing EXCEPT !.versions = Append(@, v), !.current_version = v, !.updated_at = now]

\* The body of create_version: what it does to DRAWINGS, clock and last.
CreateVersionBody(drawing_id, file_url, changes_summary, created_by_id) ==
  LET i == FirstIndex(DRAWINGS, drawing_id) IN
  IF i = 0
  THEN /\ last' = Response("create_version", drawing_id, 404)
       /\ UNCHANGED <<DRAWINGS, clock>>
  ELSE /\ \E r \in Readings :
            /\ DRAWINGS' = [DRAWINGS EXCEPT ![i] =
                 AppendVersion(@, NewVersion(DRAWINGS[i], drawing_id, file_url,
                                             changes_summary, created_by_id, r[1]), r[2])]
            /\ clock' = r[2]
       /\ last' = Response("create_version", drawing_id, 200)

\* POST /api/drawings/{drawing_id}/versions
create_version(drawing_id, file_url, changes_summary, created_by_id) ==
  /\ Serving
  /\ CreateVersionBody(drawing_id, file_url, changes_summary, created_by_id)
  /\ UNCHANGED <<ANNOTATIONS, WORKFLOWS, inflight>>

\* A client sends a create_version request; the event loop has not run it yet.
receive_create_version(client, drawing_id, file_url, changes_summary, created_by_id) ==
  /\ \A r \in inflight : r.client # client
  /\ inflight' = inflight \cup
       {[client |-> client, drawing_id |-> drawing_id, file_url |-> file_url,
         changes_summary |-> changes_summary, created_by_id |-> created_by_id,
         received |-> last.seq, served |-> FALSE]}
  /\ UNCHANGED <<DRAWINGS, ANNOTATIONS, WORKFLOWS, clock, last>>

\* The event loop runs create_version for one of the requests in flight, to
\* completion: the handler has no await.
serve_create_version ==
  \E r \in inflight :
    /\ ~r.served
    /\ CreateVersionBody(r.drawing_id, r.file_url, r.changes_summary, r.created_by_id)
    /\ inflight' = (inflight \ {r}) \cup {[r EXCEPT !.served = TRUE]}
    /\ UNCHANGED <<ANNOTATIONS, WORKFLOWS>>

\* ----------------------------------------------------------- workflows
\* workflow.status = status; completed_at = now() when approved or rejected
SetStatus(workflow, status, now) ==
  IF status \in {"approved", "rejected"}
  THEN [workflow EXCEPT !.status = status, !.completed_at = Some(now)]
  ELSE [workflow EXCEPT !.status = status]

\* PUT /api/workflows/{workflow_id}/status
update_workflow_status(workflow_id, status) ==
  LET i == FirstIndex(WORKFLOWS, workflow_id) IN
  /\ Serving
  /\ IF i = 0
     THEN /\ last' = Response("update_workflow_status", workflow_id, 404)
          /\ UNCHANGED <<WORKFLOWS, clock>>
     ELSE /\ \E t \in Times :
               /\ clock <= t
               /\ clock' = (IF status \in {"approved", "rejected"} THEN t ELSE clock)
               /\ WORKFLOWS' = [WORKFLOWS EXCEPT ![i] = SetStatus(@, status, clock')]
          /\ last' = Response("update_workflow_status", workflow_id, 200)
  /\ UNCHANGED <<DRAWINGS, ANNOTATIONS, inflight>>

\* --------------------------------------------------------- annotations
\* f"ann-{len(ANNOTATIONS) + 1}"
AnnotationId(annotations) == "ann-" \o ToString(Len(annotations) + 1)

\* Faulty variant of ReplyId: the count of replies, without the + 1.
ReplyIdNoIncrement(annotation) == "reply-" \o ToString(Len(annotation.replies))

\* f"reply-{len(annotation.replies) + 1}"
ReplyId(annotation) == "reply-" \o ToString(Len(annotation.replies) + 1)

NewAnnotation(annotations, drawing_id, version_id, type, content, position, author_id, t1, t2) ==
  [id |-> AnnotationId(annotations), drawing_id |-> drawing_id, version_id |-> version_id,
   type |-> type, author |-> UserOrDefault(author_id), content |-> content,
   position |-> position, created_at |-> t1, updated_at |-> t2,
   resolved |-> FALSE, replies |-> <<>>]

\* Faulty variant of SetResolved: the flag is flipped instead of set.
SetResolvedToggle(annotations, annotation_id, value) ==
  [annotations EXCEPT ![FirstIndex(annotations, annotation_id)].resolved = ~@]

\* Faulty variant of SetResolved: every annotation with this id gets the flag.
SetResolvedAll(annotations, annotation_id, value) ==
  [i \in 1..Len(annotations) |->
     IF annotations[i].id = annotation_id
     THEN [annotations[i] EXCEPT !.resolved = value]
     ELSE annotations[i]]

\* annotation.resolved = value, on the first annotation with this id
SetResolved(annotations, annotation_id, value) ==
  [annotations EXCEPT ![FirstIndex(annotations, annotation_id)].resolved = value]

\* Faulty variant of RemoveAnnotation: only the annotation that was looked up is removed.
RemoveFirstAnnotation(annotations, annotation_id) ==
  LET i == FirstIndex(annotations, annotation_id) IN
  SubSeq(annotations, 1, i - 1) \o SubSeq(annotations, i + 1, Len(annotations))

\* [a for a in ANNOTATIONS if a.id != annotation_id]
RemoveAnnotation(annotations, annotation_id) ==
  LET keep(a) == a.id # annotation_id IN SelectSeq(annotations, keep)

\* Faulty variant of AppendReply: the reply is inserted first, not appended.
PrependReply(annotations, annotation_id, content, author_id, now) ==
  LET i == FirstIndex(annotations, annotation_id) IN
  [annotations EXCEPT ![i].replies =
     <<[id |-> "reply-" \o ToString(Len(annotations[i].replies) + 1),
        author |-> UserOrDefault(author_id), content |-> content, created_at |-> now]>> \o @]

\* annotation.replies.append(reply), on the first annotation with this id
AppendReply(annotations, annotation_id, content, author_id, now) ==
  LET i == FirstIndex(annotations, annotation_id) IN
  [annotations EXCEPT ![i].replies =
     Append(@, [id |-> ReplyId(annotations[i]), author |-> UserOrDefault(author_id),
                content |-> content, created_at |-> now])]

\* Faulty variant of get_annotations: the version_id filter is not applied.
GetAnnotationsOfDrawing(drawing_id, version_id) ==
  LET ofDrawing(a) == a.drawing_id = drawing_id IN SelectSeq(ANNOTATIONS, ofDrawing)

\* GET /api/drawings/{drawing_id}/annotations; version_id "" is the absent filter
get_annotations(drawing_id, version_id) ==
  LET ofDrawing(a) == a.drawing_id = drawing_id
      ofVersion(a) == a.version_id = version_id
      annotations == SelectSeq(ANNOTATIONS, ofDrawing)
  IN IF version_id # "" THEN SelectSeq(annotations, ofVersion) ELSE annotations

\* The version_id query parameters of get_annotations; "" is the absent one.
VersionFilters == {"", "ver-1-1", "ver-1-2"}

\* The request GET /api/drawings/{drawing_id}/annotations is served: it answers
\* get_annotations(drawing_id, version_id) and assigns nothing.
list_annotations(drawing_id, version_id) ==
  /\ Serving
  /\ last' = Response("get_annotations", drawing_id, 200)
  /\ UNCHANGED <<DRAWINGS, ANNOTATIONS, WORKFLOWS, clock, inflight>>

\* POST /api/annotations
create_annotation(drawing_id, version_id, type, content, position, author_id) ==
  /\ Serving
  /\ \E r \in Readings :
       /\ ANNOTATIONS' = Append(ANNOTATIONS,
            NewAnnotation(ANNOTATIONS, drawing_id, version_id, type, content, position,
                          author_id, r[1], r[2]))
       /\ clock' = r[2]
  /\ last' = Response("create_annotation", AnnotationId(ANNOTATIONS), 200)
  /\ UNCHANGED <<DRAWINGS, WORKFLOWS, inflight>>

\* PUT /api/annotations/{annotation_id}/resolve
resolve_annotation(annotation_id) ==
  /\ Serving
  /\ IF FirstIndex(ANNOTATIONS, annotation_id) = 0
     THEN /\ last' = Response("resolve_annotation", annotation_id, 404)
          /\ UNCHANGED ANNOTATIONS
     ELSE /\ ANNOTATIONS' = SetResolved(ANNOTATIONS, annotation_id, TRUE)
          /\ last' = Response("resolve_annotation", annotation_id, 200)
  /\ UNCHANGED <<DRAWINGS, WORKFLOWS, clock, inflight>>

\* PUT /api/annotations/{annotation_id}/unresolve
unresolve_annotation(annotation_id) ==
  /\ Serving
  /\ IF FirstIndex(ANNOTATIONS, annotation_id) = 0
     THEN /\ last' = Response("unresolve_annotation", annotation_id, 404)
          /\ UNCHANGED ANNOTATIONS
     ELSE /\ ANNOTATIONS' = SetResolved(ANNOTATIONS, annotation_id, FALSE)
          /\ last' = Response("unresolve_annotation", annotation_id, 200)
  /\ UNCHANGED <<DRAWINGS, WORKFLOWS, clock, inflight>>

\* Faulty variant of delete_annotation: a delete of an id that is not stored
\* is answered like one that is.
delete_annotation_always(annotation_id) ==
  /\ Serving
  /\ ANNOTATIONS' = RemoveAnnotation(ANNOTATIONS, annotation_id)
  /\ last' = Response("delete_annotation", annotation_id, 200)
  /\ UNCHANGED <<DRAWINGS, WORKFLOWS, clock, inflight>>

\* DELETE /api/annotations/{annotation_id}
delete_annotation(annotation_id) ==
  /\ Serving
  /\ IF FirstIndex(ANNOTATIONS, annotation_id) = 0
     THEN /\ last' = Response("delete_annotation", annotation_id, 404)
          /\ UNCHANGED ANNOTATIONS
     ELSE /\ ANNOTATIONS' = RemoveAnnotation(ANNOTATIONS, annotation_id)
          /\ last' = Response("delete_annotation", annotation_id, 200)
  /\ UNCHANGED <<DRAWINGS, WORKFLOWS, clock, inflight>>

\* POST /api/annotations/{annotation_id}/replies
add_reply(annotation_id, content, author_id) ==
  LET i == FirstIndex(ANNOTATIONS, annotation_id) IN
  /\ Serving
  /\ IF i = 0
     THEN /\ last' = Response("add_reply", annotation_id, 404)
          /\ UNCHANGED <<ANNOTATIONS, clock>>
     ELSE /\ \E t \in Times :
               /\ clock <= t
               /\ ANNOTATIONS' = AppendReply(ANNOTATIONS, annotation_id, content, author_id, t)
               /\ clock' = t
          /\ last' = Response("add_reply", annotation_id, 200)
  /\ UNCHANGED <<DRAWINGS, WORKFLOWS, inflight>>

\* ------------------------------------------------------ specifications
Next ==
  \/ \E d \in DrawingIds, f \in FileUrls, s \in Summaries, u \in UserIds :
       create_version(d, f, s, u)
  \/ \E w \in WorkflowIds, s \in ReviewStatus : update_workflow_status(w, s)

NextAnnotations ==
  \/ \E tg \in AnnotationTargets, c \in Contents, u \in UserIds :
       create_annotation(tg[1], tg[2], "comment", c,
                         [x |-> 0, y |-> 0, width |-> 10, height |-> 10], u)
  \/ \E a \in AnnotationIds : resolve_annotation(a)
  \/ \E a \in AnnotationIds : unresolve_annotation(a)
  \/ \E a \in AnnotationIds : delete_annotation(a)
  \/ \E a \in AnnotationIds, c \in Contents, u \in UserIds : add_reply(a, c, u)
  \/ \E d \in DrawingIds, v \in VersionFilters : list_annotations(d, v)

Spec == Init /\ [][Next]_vars
SpecAnnotations == Init /\ [][NextAnnotations]_vars

NextConcurrent ==
  \/ \E c \in Clients, d \in DrawingIds, f \in FileUrls, s \in Summaries, u \in UserIds :
       receive_create_version(c, d, f, s, u)
  \/ serve_create_version

SpecConcurrent == Init /\ [][NextConcurrent]_vars

\* Every handler that assigns to a collection, in one specification: each is
\* called with an id that is stored and with one that is not.
SomeAnnotationIds == {"ann-1", "ann-9"}

NextAll ==
  \/ \E d \in DrawingIds, f \in FileUrls, s \in Summaries :
       create_version(d, f, s, "user-2")
  \/ \E w \in WorkflowIds, s \in ReviewStatus : update_workflow_status(w, s)
  \/ \E c \in Contents :
       create_annotation("draw-1", "ver-1-1", "comment", c,
                         [x |-> 0, y |-> 0, width |-> 10, height |-> 10], "user-2")
  \/ \E a \in SomeAnnotationIds : resolve_annotation(a)
  \/ \E a \in SomeAnnotationIds : unresolve_annotation(a)
  \/ \E a \in SomeAnnotationIds : delete_annotation(a)
  \/ \E a \in SomeAnnotationIds, c \in Contents : add_reply(a, c, "user-2")

SpecAll == Init /\ [][NextAll]_vars

\* ---------------------------------------------------------------- claims
Last(seq) == seq[Len(seq)]

\* C1: in every reachable state the current_version of every drawing is the
\* last element of its versions, the states right after a successful
\* create_version included.
C1_CurrentVersionIsLast ==
  \A i \in 1..Len(DRAWINGS) :
    /\ Len(DRAWINGS[i].versions) > 0
    /\ DRAWINGS[i].current_version = Last(DRAWINGS[i].versions)

\* A create_version on draw-1 has just succeeded and appended version 3.
C1_Witness ==
  /\ last.op = "create_version" /\ last.code = 200 /\ last.target = "draw-1"
  /\ Len(DRAWINGS[1].versions) = 3
  /\ DRAWINGS[1].current_version.id = "ver-draw-1-3"

\* C2: the version_number values of every drawing are 1, 2, ..., n in order,
\* also while several create_version requests on one drawing are in flight.
C2_VersionNumbersDense ==
  \A i \in 1..Len(DRAWINGS) :
    \A k \in 1..Len(DRAWINGS[i].versions) : DRAWINGS[i].versions[k].version_number = k

\* Two create_version requests on draw-1 were in flight together (both arrived
\* before any request was served) and both have been served.
C2_Witness ==
  /\ \E r1 \in inflight, r2 \in inflight :
       /\ r1.client # r2.client
       /\ r1.drawing_id = "draw-1" /\ r2.drawing_id = "draw-1"
       /\ r1.received = 0 /\ r2.received = 0
       /\ r1.served /\ r2.served
  /\ Len(DRAWINGS[1].versions) = 4

\* The Version a workflow refers to: the versions of the drawing drawing_id
\* whose id is version_id.
ReferencedVersions(w) ==
  UNION {{DRAWINGS[i].versions[k] :
            k \in {k \in 1..Len(DRAWINGS[i].versions) :
                     DRAWINGS[i].versions[k].id = w.version_id}} :
         i \in {i \in 1..Len(DRAWINGS) : DRAWINGS[i].id = w.drawing_id}}

\* C3: in every reachable state the status of each workflow equals the status
\* of the Version it refers to.
C3_StatusMirrored ==
  \A i \in 1..Len(WORKFLOWS) :
    \A v \in ReferencedVersions(WORKFLOWS[i]) : v.status = WORKFLOWS[i].status

\* C4: in every reachable state completed_at is present exactly when the
\* status is approved or rejected.
C4_CompletedIffFinal ==
  \A i \in 1..Len(WORKFLOWS) :
    (WORKFLOWS[i].completed_at # None) <=> (WORKFLOWS[i].status \in {"approved", "rejected"})

\* The transitions of the hardened design: draft -> in_review, in_review ->
\* approved, rejected or needs_revision, needs_revision -> in_review.
ValidTransitions ==
  {<<"draft", "in_review">>, <<"in_review", "approved">>, <<"in_review", "rejected">>,
   <<"in_review", "needs_revision">>, <<"needs_revision", "in_review">>}

\* C5: update_workflow_status on an existing workflow sets the requested
\* status when the transition is one of ValidTransitions, and otherwise answers
\* an error and leaves the workflow as it was.
C5_OnlyValidTransitions ==
  [][\A w \in WorkflowIds, st \in ReviewStatus :
       (update_workflow_status(w, st) /\ FirstIndex(WORKFLOWS, w) # 0) =>
         LET i == FirstIndex(WORKFLOWS, w) IN
         IF <<WORKFLOWS[i].status, st>> \in ValidTransitions
         THEN WORKFLOWS'[i].status = st
         ELSE last'.code # 200 /\ WORKFLOWS' = WORKFLOWS]_vars

UnknownUser(user_id) == FirstIndex(USERS, user_id) = 0

\* C6: create_annotation and add_reply with an author_id of no known user
\* answer NotFound and store nothing.
C6_UnknownAuthorRejected ==
  [][\A u \in UserIds : UnknownUser(u) =>
       /\ \A tg \in AnnotationTargets, c \in Contents :
            create_annotation(tg[1], tg[2], "comment", c,
                              [x |-> 0, y |-> 0, width |-> 10, height |-> 10], u)
              => (last'.code = 404 /\ ANNOTATIONS' = ANNOTATIONS)
       /\ \A a \in AnnotationIds, c \in Contents :
            add_reply(a, c, u) => (last'.code = 404 /\ ANNOTATIONS' = ANNOTATIONS)]_vars

\* C7: create_version on an existing drawing with a created_by_id of no known
\* user answers NotFound and leaves the drawing as it was.
C7_UnknownCreatorRejected ==
  [][\A d \in DrawingIds, f \in FileUrls, s \in Summaries, u \in UserIds :
       (create_version(d, f, s, u) /\ FirstIndex(DRAWINGS, d) # 0 /\ UnknownUser(u)) =>
         (last'.code = 404 /\ DRAWINGS' = DRAWINGS)]_vars

\* C8: the ids of the stored annotations are pairwise distinct.
C8_AnnotationIdsDistinct ==
  \A i \in 1..Len(ANNOTATIONS), j \in 1..Len(ANNOTATIONS) :
    i # j => ANNOTATIONS[i].id # ANNOTATIONS[j].id

\* No annotation with this id is stored, listed or found by a handler.
Gone(annotations, annotation_id) ==
  /\ \A i \in 1..Len(annotations) : annotations[i].id # annotation_id
  /\ FirstIndex(annotations, annotation_id) = 0

Listed(annotation_id) ==
  \E d \in DrawingIds, v \in VersionFilters :
    \E i \in 1..Len(get_annotations(d, v)) : get_annotations(d, v)[i].id = annotation_id

\* C9: after a successful delete_annotation(id) no annotation with that id is
\* stored or listed, and a resolve, unresolve, add_reply or delete of that id
\* that follows immediately answers NotFound.
C9_DeletedIsGone ==
  [][/\ \A a \in AnnotationIds :
          (last'.op = "delete_annotation" /\ last'.code = 200 /\ delete_annotation(a)) =>
            (Gone(ANNOTATIONS', a) /\ ~Listed(a)')
     /\ (/\ last.op = "delete_annotation" /\ last.code = 200
         /\ last'.seq = last.seq + 1 /\ last'.target = last.target
         /\ last'.op \in {"resolve_annotation", "unresolve_annotation",
                          "add_reply", "delete_annotation"})
          => last'.code = 404]_vars

\* ann-1 was deleted by the first request and the resolve that followed
\* answered NotFound.
C9_Witness ==
  /\ last.seq = 2 /\ last.op = "resolve_annotation" /\ last.target = "ann-1"
  /\ last.code = 404
  /\ Gone(ANNOTATIONS, "ann-1") /\ Len(ANNOTATIONS) = 2

\* C10: resolve then unresolve of an annotation leaves resolved = FALSE, and
\* a second resolve (unresolve) right after a resolve (unresolve) of the same
\* annotation leaves the store as the first one left it.
C10_ResolveUnresolve ==
  [][(/\ last.code = 200 /\ last'.seq = last.seq + 1 /\ last'.target = last.target
      /\ last.op \in {"resolve_annotation", "unresolve_annotation"}
      /\ last'.op \in {"resolve_annotation", "unresolve_annotation"})
       => /\ last'.code = 200
          /\ last'.op = last.op => UNCHANGED <<ANNOTATIONS, DRAWINGS, WORKFLOWS>>
          /\ last'.op = "unresolve_annotation" =>
               \A i \in 1..Len(ANNOTATIONS') :
                 ANNOTATIONS'[i].id = last.target => ~ANNOTATIONS'[i].resolved
          /\ last'.op = "resolve_annotation" =>
               ANNOTATIONS'[FirstIndex(ANNOTATIONS', last.target)].resolved]_vars

\* ann-2, stored resolved, has been resolved and then unresolved.
C10_Witness ==
  /\ last.seq = 2 /\ last.op = "unresolve_annotation" /\ last.target = "ann-2"
  /\ last.code = 200
  /\ ~ANNOTATIONS[2].resolved /\ ANNOTATIONS[2].id = "ann-2"

IsPrefix(s, t) == Len(s) <= Len(t) /\ SubSeq(t, 1, Len(s)) = s

\* C11: add_reply on a stored annotation with a known author_id lengthens the
\* replies of that annotation by one, the new reply comes last with the given
\* author and content, the earlier replies stay as they were, and every other
\* annotation is unchanged.
C11_ReplyAppended ==
  [][\A a \in AnnotationIds, c \in Contents, u \in UserIds :
       (/\ last'.op = "add_reply" /\ last'.target = a
        /\ FirstIndex(ANNOTATIONS, a) # 0 /\ ~UnknownUser(u)
        /\ add_reply(a, c, u)) =>
         LET i == FirstIndex(ANNOTATIONS, a) IN
         /\ last'.code = 200
         /\ Len(ANNOTATIONS') = Len(ANNOTATIONS)
         /\ Len(ANNOTATIONS'[i].replies) = Len(ANNOTATIONS[i].replies) + 1
         /\ Last(ANNOTATIONS'[i].replies).author.id = u
         /\ Last(ANNOTATIONS'[i].replies).content = c
         /\ IsPrefix(ANNOTATIONS[i].replies, ANNOTATIONS'[i].replies)
         /\ \A j \in 1..Len(ANNOTATIONS) : j # i => ANNOTATIONS'[j] = ANNOTATIONS[j]]_vars

\* user-2 has just replied to ann-1, which now holds the seeded reply and the
\* new one.
C11_Witness ==
  /\ last.op = "add_reply" /\ last.code = 200 /\ last.target = "ann-1"
  /\ ANNOTATIONS[1].id = "ann-1" /\ Len(ANNOTATIONS[1].replies) = 2
  /\ ANNOTATIONS[1].replies[1].id = "reply-1"
  /\ ANNOTATIONS[1].replies[2].author.id = "user-2"

\* C12: a successful create_version on a drawing holding n versions appends a
\* Version with version_number n + 1, status draft and the file_url and
\* changes_summary of the request, the drawing then holds n + 1 versions, and
\* of two successive calls on one drawing the second makes current_version
\* one higher than the first did.
C12_VersionAppended ==
  [][\A d \in DrawingIds, f \in FileUrls, s \in Summaries, u \in UserIds :
       (create_version(d, f, s, u) /\ last'.code = 200) =>
         LET i == FirstIndex(DRAWINGS, d)
             n == Len(DRAWINGS[i].versions)
             v == Last(DRAWINGS'[i].versions)
         IN /\ Len(DRAWINGS'[i].versions) = n + 1
            /\ v.version_number = n + 1
            /\ v.status = "draft"
            /\ v.file_url = f
            /\ v.changes_summary = s
            /\ DRAWINGS'[i].current_version.version_number = n + 1
            /\ (last.op = "create_version" /\ last.code = 200 /\ last.target = d) =>
                 DRAWINGS'[i].current_version.version_number =
                   DRAWINGS[i].current_version.version_number + 1]_vars

\* The first two requests were create_version on draw-2: it holds versions
\* 1, 2, 3 and current_version is version 3.
C12_Witness ==
  /\ last.seq = 2 /\ last.op = "create_version" /\ last.code = 200
  /\ last.target = "draw-2"
  /\ Len(DRAWINGS[2].versions) = 3
  /\ DRAWINGS[2].versions[2].version_number = 2
  /\ DRAWINGS[2].current_version.version_number = 3

\* C13: every stored annotation names a drawing of DRAWINGS and a Version of
\* that drawing (create_annotation stores nothing else).
C13_AnnotationRefsResolve ==
  \A k \in 1..Len(ANNOTATIONS) :
    \E i \in 1..Len(DRAWINGS) :
      /\ DRAWINGS[i].id = ANNOTATIONS[k].drawing_id
      /\ \E j \in 1..Len(DRAWINGS[i].versions) :
           DRAWINGS[i].versions[j].id = ANNOTATIONS[k].version_id

\* The positions of the stored annotations a listing of (drawing_id,
\* version_id) is to return.
Matches(drawing_id, version_id) ==
  {i \in 1..Len(ANNOTATIONS) :
     /\ ANNOTATIONS[i].drawing_id = drawing_id
     /\ version_id = "" \/ ANNOTATIONS[i].version_id = version_id}

\* s holds elements of t, in the order they have in t.
RECURSIVE IsSubseq(_, _)
IsSubseq(s, t) ==
  IF s = <<>> THEN TRUE
  ELSE IF t = <<>> THEN FALSE
  ELSE IF Head(s) = Head(t) THEN IsSubseq(Tail(s), Tail(t))
  ELSE IsSubseq(s, Tail(t))

\* A listing holds only annotations it is to return, as many as are stored,
\* in the order of the store: it is the stored ones it is to return, in order.
ListingExact ==
  \A d \in DrawingIds, v \in VersionFilters :
    LET r == get_annotations(d, v) IN
    /\ Len(r) = Cardinality(Matches(d, v))
    /\ \A k \in 1..Len(r) :
         r[k].drawing_id = d /\ (v = "" \/ r[k].version_id = v)
    /\ IsSubseq(r, ANNOTATIONS)

\* The order of the store is the order of insertion: a created annotation
\* comes last and a delete keeps the order of the annotations that stay.
InsertionOrderKept ==
  /\ last'.op = "create_annotation" =>
       (/\ Len(ANNOTATIONS') = Len(ANNOTATIONS) + 1
        /\ SubSeq(ANNOTATIONS', 1, Len(ANNOTATIONS)) = ANNOTATIONS)
  /\ last'.op = "delete_annotation" => IsSubseq(ANNOTATIONS', ANNOTATIONS)

\* C14: in every state get_annotations(drawing_id, version_id) is exactly the
\* stored annotations of that drawing (and of that version, when one is
\* given) in the order of the store, which is the order of insertion, and
\* serving it changes no collection.
C14_ListingExact ==
  /\ []ListingExact
  /\ [][/\ last'.seq = last.seq + 1 => InsertionOrderKept
        /\ last'.op = "get_annotations" /\ last'.seq = last.seq + 1 =>
             UNCHANGED <<ANNOTATIONS, DRAWINGS, WORKFLOWS>>]_vars

\* The annotations of draw-1 have just been listed while the store holds two
\* of them on ver-1-2 and a created one on ver-1-1.
C14_Witness ==
  /\ last.op = "get_annotations" /\ last.code = 200 /\ last.target = "draw-1"
  /\ Len(get_annotations("draw-1", "ver-1-1")) = 1
  /\ Len(get_annotations("draw-1", "ver-1-2")) = 2
  /\ Len(get_annotations("draw-1", "")) = 3

\* C16: a successful delete_annotation removes exactly one annotation and
\* leaves every other one in place and in order.
C16_DeleteRemovesOne ==
  [][\A a \in AnnotationIds :
       (delete_annotation(a) /\ last'.code = 200) =>
         LET i == FirstIndex(ANNOTATIONS, a) IN
         /\ Len(ANNOTATIONS') = Len(ANNOTATIONS) - 1
         /\ ANNOTATIONS' = SubSeq(ANNOTATIONS, 1, i - 1)
                             \o SubSeq(ANNOTATIONS, i + 1, Len(ANNOTATIONS))]_vars

\* C17: a successful resolve or unresolve changes nothing but the resolved
\* flag of the annotation it looked up: its other fields, the other
\* annotations, the drawings and the workflows stay as they were.
C17_ResolveFrame ==
  [][\A a \in AnnotationIds :
       (/\ last'.op \in {"resolve_annotation", "unresolve_annotation"} /\ last'.code = 200
        /\ last'.target = a
        /\ resolve_annotation(a) \/ unresolve_annotation(a)) =>
         LET i == FirstIndex(ANNOTATIONS, a) IN
         /\ Len(ANNOTATIONS') = Len(ANNOTATIONS)
         /\ ANNOTATIONS'[i] = [ANNOTATIONS[i] EXCEPT !.resolved = ANNOTATIONS'[i].resolved]
         /\ ANNOTATIONS'[i].updated_at = ANNOTATIONS[i].updated_at
         /\ \A j \in 1..Len(ANNOTATIONS) : j # i => ANNOTATIONS'[j] = ANNOTATIONS[j]
         /\ UNCHANGED <<DRAWINGS, WORKFLOWS>>]_vars

\* ann-1, stored unresolved, has just been resolved and keeps its seeded
\* updated_at and its reply.
C17_Witness ==
  /\ last.op = "resolve_annotation" /\ last.code = 200 /\ last.target = "ann-1"
  /\ ANNOTATIONS[1].id = "ann-1" /\ ANNOTATIONS[1].resolved
  /\ ANNOTATIONS[1].updated_at = datetime(2024, 11, 16, 10, 30)
  /\ Len(ANNOTATIONS[1].replies) = 1

\* C19: the reply ids of every annotation are pairwise distinct.
C19_ReplyIdsDistinct ==
  \A k \in 1..Len(ANNOTATIONS) :
    \A i \in 1..Len(ANNOTATIONS[k].replies), j \in 1..Len(ANNOTATIONS[k].replies) :
      i # j => ANNOTATIONS[k].replies[i].id # ANNOTATIONS[k].replies[j].id

\* ann-1 has received two replies after the seeded one.
C19_Witness ==
  /\ last.op = "add_reply" /\ last.code = 200 /\ last.target = "ann-1"
  /\ ANNOTATIONS[1].id = "ann-1" /\ Len(ANNOTATIONS[1].replies) = 3
  /\ ANNOTATIONS[1].replies[3].id = "reply-3"

Stored(seq, id) == FirstIndex(seq, id) # 0

\* C15: resolve, unresolve, delete, add_reply, update_workflow_status and
\* create_version called with an id that is not stored answer NotFound, and a
\* request answered NotFound leaves every collection as it was.
C15_NotFoundChangesNothing ==
  [][/\ \A a \in SomeAnnotationIds :
          ((\/ resolve_annotation(a) \/ unresolve_annotation(a) \/ delete_annotation(a)
            \/ \E c \in Contents : add_reply(a, c, "user-2"))
           /\ ~Stored(ANNOTATIONS, a)) => last'.code = 404
     /\ \A w \in WorkflowIds, s \in ReviewStatus :
          (update_workflow_status(w, s) /\ ~Stored(WORKFLOWS, w)) => last'.code = 404
     /\ \A d \in DrawingIds, f \in FileUrls, s \in Summaries :
          (create_version(d, f, s, "user-2") /\ ~Stored(DRAWINGS, d)) => last'.code = 404
     /\ (last'.seq = last.seq + 1 /\ last'.code = 404) =>
          UNCHANGED <<DRAWINGS, ANNOTATIONS, WORKFLOWS>>]_vars

\* ann-1 has been deleted and the add_reply to it that followed was answered
\* NotFound.
C15_Witness ==
  /\ last.seq = 2 /\ last.op = "add_reply" /\ last.target = "ann-1" /\ last.code = 404
  /\ Len(ANNOTATIONS) = 2 /\ ~Stored(ANNOTATIONS, "ann-1")
  /\ DRAWINGS = InitDrawings /\ WORKFLOWS = InitWorkflows

\* C18: across every step the versions of each drawing only grow at the end,
\* the versions already there keep their id, version_number, created_by and
\* file_url, and a create_version on one drawing leaves every other drawing
\* as it was.
C18_VersionsAppendOnly ==
  [][/\ Len(DRAWINGS') = Len(DRAWINGS)
     /\ \A i \in 1..Len(DRAWINGS) :
          /\ DRAWINGS'[i].id = DRAWINGS[i].id
          /\ Len(DRAWINGS[i].versions) <= Len(DRAWINGS'[i].versions)
          /\ \A k \in 1..Len(DRAWINGS[i].versions) :
               /\ DRAWINGS'[i].versions[k].id = DRAWINGS[i].versions[k].id
               /\ DRAWINGS'[i].versions[k].version_number = DRAWINGS[i].versions[k].version_number
               /\ DRAWINGS'[i].versions[k].created_by = DRAWINGS[i].versions[k].created_by
               /\ DRAWINGS'[i].versions[k].file_url = DRAWINGS[i].versions[k].file_url
          /\ IsPrefix(DRAWINGS[i].versions, DRAWINGS'[i].versions)
     /\ \A d \in DrawingIds, f \in FileUrls, s \in Summaries :
          create_version(d, f, s, "user-2") =>
            \A i \in 1..Len(DRAWINGS) : DRAWINGS[i].id # d => DRAWINGS'[i] = DRAWINGS[i]]_vars

\* draw-1 has received its third and fourth version, the seeded two still
\* come first, and draw-2 is as seeded.
C18_Witness ==
  /\ last.op = "create_version" /\ last.code = 200 /\ last.target = "draw-1"
  /\ Len(DRAWINGS[1].versions) = 4
  /\ DRAWINGS[1].versions[1] = VERSION_1 /\ DRAWINGS[1].versions[2] = VERSION_2
  /\ DRAWINGS[2] = InitDrawings[2]

====
